---- MODULE Spec2Model ----
(***************************************************************************)
(* Model of src/app.py: the Streamlit stock dashboard.                     *)
(*                                                                         *)
(* One script run is one action.  The session fields (stock_data,          *)
(* analysis_text, comp_info, conversion_rate) persist between runs; what a *)
(* run renders (view for the Strategic Analysis tab, audit for the         *)
(* Accuracy Audit tab) is rebuilt by every run.  market is the one-year    *)
(* history the data provider returns for the audited ticker; origin, nreq  *)
(* and last_audit are history variables.                                   *)
(*                                                                         *)
(* Prices are integers.  float64 values are modelled as exact rationals    *)
(* extended with the IEEE special values NaN, +inf, -inf and -0.0, because *)
(* the RSI formula of line 155 divides by zero on flat and on rising       *)
(* windows.  Rounding error of float64 is not modelled.                    *)
(* Bars are numbered from 1 (pandas numbers them from 0): bar p of the     *)
(* model is row p - 1 of the DataFrame.                                    *)
(***************************************************************************)
EXTENDS Integers, Sequences, FiniteSets, TLC

VARIABLES stock_data, analysis_text, comp_info, conversion_rate,
          view, audit, last_audit, market, origin, nreq

vars == <<stock_data, analysis_text, comp_info, conversion_rate,
          view, audit, last_audit, market, origin, nreq>>

session == <<stock_data, analysis_text, comp_info, conversion_rate>>

(***************************************************************************)
(* Bounds of the model.                                                    *)
(***************************************************************************)
MaxLen == 30
MaxDelta == 2
BaseClose == 100
MaxRequests == 3

(***************************************************************************)
(* Constants of the program.                                               *)
(***************************************************************************)
RSIWindow == 14
BuyThreshold == 35
Horizon == 5
TailRows == 5
FallbackRate == 835

Min(a, b) == IF a <= b THEN a ELSE b
Max(a, b) == IF a >= b THEN a ELSE b
Abs(a) == IF a < 0 THEN -a ELSE a

RECURSIVE Gcd(_, _)
Gcd(a, b) == IF b = 0 THEN a ELSE Gcd(b, a % b)

(***************************************************************************)
(* float64 values: k = "num" is the rational n/d in lowest terms (d > 0),  *)
(* "nz" is -0.0, "inf" is n * infinity (n = 1 or -1), "nan" is NaN.        *)
(***************************************************************************)
NaN == [k |-> "nan", n |-> 0, d |-> 1]
NegZero == [k |-> "nz", n |-> 0, d |-> 1]
Inf(s) == [k |-> "inf", n |-> s, d |-> 1]
Num(n, d) ==
    LET g == Gcd(Abs(n), Abs(d))
        s == IF d < 0 THEN -1 ELSE 1
    IN  [k |-> "num", n |-> (s * n) \div g, d |-> (s * d) \div g]
Flt(n) == [k |-> "num", n |-> n, d |-> 1]

IsNaN(x) == x.k = "nan"
IsZero(x) == x.k = "nz" \/ (x.k = "num" /\ x.n = 0)
IsFinite(x) == x.k \in {"num", "nz"}
Sign(x) ==
    CASE x.k = "nz" -> -1
      [] x.k = "inf" -> x.n
      [] OTHER -> IF x.n < 0 THEN -1 ELSE 1
Zero(s) == IF s < 0 THEN NegZero ELSE Flt(0)

Neg(x) ==
    CASE x.k = "nan" -> NaN
      [] x.k = "inf" -> Inf(-x.n)
      [] x.k = "nz" -> Flt(0)
      [] OTHER -> IF x.n = 0 THEN NegZero ELSE Num(-x.n, x.d)

Add(a, b) ==
    CASE IsNaN(a) \/ IsNaN(b) -> NaN
      [] a.k = "inf" /\ b.k = "inf" -> IF a.n = b.n THEN a ELSE NaN
      [] a.k = "inf" -> a
      [] b.k = "inf" -> b
      [] IsZero(a) /\ IsZero(b) -> IF a.k = "nz" /\ b.k = "nz" THEN NegZero ELSE Flt(0)
      [] OTHER -> Num(a.n * b.d + b.n * a.d, a.d * b.d)

Sub(a, b) == Add(a, Neg(b))

\* Division with a bug: a zero divisor gives NaN whatever the dividend.
DivZeroIsNaN(a, b) ==
    CASE IsNaN(a) \/ IsNaN(b) -> NaN
      [] IsZero(b) -> NaN
      [] b.k = "inf" -> IF a.k = "inf" THEN NaN ELSE Zero(Sign(a) * Sign(b))
      [] a.k = "inf" -> Inf(Sign(a) * Sign(b))
      [] IsZero(a) -> Zero(Sign(a) * Sign(b))
      [] OTHER -> Num(a.n * b.d, a.d * b.n)

Div(a, b) ==
    CASE IsNaN(a) \/ IsNaN(b) -> NaN
      [] IsZero(b) -> IF IsZero(a) THEN NaN ELSE Inf(Sign(a) * Sign(b))
      [] b.k = "inf" -> IF a.k = "inf" THEN NaN ELSE Zero(Sign(a) * Sign(b))
      [] a.k = "inf" -> Inf(Sign(a) * Sign(b))
      [] IsZero(a) -> Zero(Sign(a) * Sign(b))
      [] OTHER -> Num(a.n * b.d, a.d * b.n)

\* a < b; any comparison with NaN is False.
Lt(a, b) ==
    CASE IsNaN(a) \/ IsNaN(b) -> FALSE
      [] a.k = "inf" /\ b.k = "inf" -> a.n < b.n
      [] a.k = "inf" -> a.n < 0
      [] b.k = "inf" -> b.n > 0
      [] OTHER -> a.n * b.d < b.n * a.d

(***************************************************************************)
(* pandas Series operations, on sequences of float64 values.  Column makes *)
(* the sequence of a column's values, each computed once.                  *)
(***************************************************************************)
Column(f, n) == SubSeq(f, 1, n)

Diff(s) == Column([p \in 1..Len(s) |-> IF p = 1 THEN NaN ELSE Sub(s[p], s[p - 1])], Len(s))

ClipLower0(s) == Column([p \in 1..Len(s) |-> IF Lt(s[p], Flt(0)) THEN Flt(0) ELSE s[p]], Len(s))

ClipUpper0(s) == Column([p \in 1..Len(s) |-> IF Lt(Flt(0), s[p]) THEN Flt(0) ELSE s[p]], Len(s))

RECURSIVE SumRange(_, _, _)
SumRange(s, lo, hi) == IF lo > hi THEN Flt(0) ELSE Add(SumRange(s, lo, hi - 1), s[hi])

\* rolling(w).mean(): min_periods = w, so a window that is short or holds a
\* NaN gives NaN.
RollingMean(s, w) ==
    Column([p \in 1..Len(s) |->
               IF p < w \/ \E q \in (p - w + 1)..p : IsNaN(s[q])
               THEN NaN
               ELSE Div(SumRange(s, p - w + 1, p), Flt(w))], Len(s))

\* -1 * s
Negate(s) == Column([p \in 1..Len(s) |-> Neg(s[p])], Len(s))

\* shift(-h): the value h bars later, NaN past the end.
ShiftBack(s, h) == Column([p \in 1..Len(s) |-> IF p + h <= Len(s) THEN s[p + h] ELSE NaN], Len(s))

CloseColumn(closes) == Column([p \in 1..Len(closes) |-> Flt(closes[p])], Len(closes))

Up(closes) == RollingMean(ClipLower0(Diff(CloseColumn(closes))), RSIWindow)

\* The average loss with a bug: the sign is not flipped.
DownNotNegated(closes) == RollingMean(ClipUpper0(Diff(CloseColumn(closes))), RSIWindow)

Down(closes) == Negate(RollingMean(ClipUpper0(Diff(CloseColumn(closes))), RSIWindow))

RSI(closes) ==
    LET up == Up(closes)
        down == Down(closes)
    IN  Column([p \in 1..Len(closes) |->
                   Sub(Flt(100), Div(Flt(100), Add(Flt(1), Div(up[p], down[p]))))],
               Len(closes))

\* The labels with a bug: np.where(RSI >= 35, 'WAIT', 'BUY').
SignalUnlessAbove(rsi) ==
    Column([p \in 1..Len(rsi) |-> IF Lt(rsi[p], Flt(BuyThreshold)) \/ IsNaN(rsi[p])
                                  THEN "BUY" ELSE "WAIT"],
           Len(rsi))

Signal(rsi) ==
    Column([p \in 1..Len(rsi) |-> IF Lt(rsi[p], Flt(BuyThreshold)) THEN "BUY" ELSE "WAIT"],
           Len(rsi))

\* (Close.shift(-5) > Close).astype(int)
Result(closes) ==
    LET c == CloseColumn(closes)
        later == ShiftBack(c, Horizon)
    IN  Column([p \in 1..Len(closes) |-> IF Lt(c[p], later[p]) THEN 1 ELSE 0], Len(closes))

AuditFrame(closes) ==
    LET rsi == RSI(closes)
        sig == Signal(rsi)
        res == Result(closes)
    IN  Column([p \in 1..Len(closes) |->
                   [bar |-> p, Close |-> Flt(closes[p]), RSI |-> rsi[p],
                    Signal |-> sig[p], Result |-> res[p]]], Len(closes))

IsBuy(row) == row.Signal = "BUY"
HasNoNaN(row) == ~IsNaN(row.Close) /\ ~IsNaN(row.RSI)

\* audit_data[audit_data['Signal'] == 'BUY']
RECURSIVE BuyRows(_, _)
BuyRows(frame, p) ==
    IF p > Len(frame) THEN << >>
    ELSE (IF IsBuy(frame[p]) THEN <<frame[p]>> ELSE << >>) \o BuyRows(frame, p + 1)

\* .dropna(): the rows without a NaN in any column
RECURSIVE DropNa(_, _)
DropNa(rows, p) ==
    IF p > Len(rows) THEN << >>
    ELSE (IF HasNoNaN(rows[p]) THEN <<rows[p]>> ELSE << >>) \o DropNa(rows, p + 1)

Hits(frame) == DropNa(BuyRows(frame, 1), 1)

RECURSIVE SumResult(_, _)
SumResult(rows, p) == IF p > Len(rows) THEN 0 ELSE rows[p].Result + SumResult(rows, p + 1)

\* f"{x:.1f}": x rounded to one decimal, ties to even; the value is num/den
\* and the outcome is in tenths.
FormatTenths(num, den) ==
    LET q == (10 * num) \div den
        r == (10 * num) % den
    IN  IF 2 * r > den \/ (2 * r = den /\ q % 2 = 1) THEN q + 1 ELSE q

\* hits['Result'].mean() * 100, formatted
AccuracyRate(hits) == FormatTenths(100 * SumResult(hits, 1), Len(hits))

TailN(rows, k) == SubSeq(rows, Max(1, Len(rows) - k + 1), Len(rows))

NoAudit == [kind |-> "idle", series |-> << >>, frame |-> << >>, hits |-> << >>,
            accuracy |-> -1, table |-> << >>]

\* What one press of Run Audit renders for the fetched history.
AuditOutcome(closes) ==
    IF Len(closes) = 0
    THEN [NoAudit EXCEPT !.kind = "empty"]
    ELSE LET frame == AuditFrame(closes)
             hits == Hits(frame)
         IN  IF Len(hits) = 0
             THEN [kind |-> "nosignal", series |-> closes, frame |-> frame,
                   hits |-> hits, accuracy |-> -1, table |-> << >>]
             ELSE [kind |-> "metric", series |-> closes, frame |-> frame,
                   hits |-> hits, accuracy |-> AccuracyRate(hits),
                   table |-> TailN(hits, TailRows)]

(***************************************************************************)
(* Histories the market-data provider may return.                          *)
(***************************************************************************)
Deltas == (-MaxDelta)..MaxDelta
Switches == {8, 20}

StepSeries(n, d1, d2, k) ==
    Column([p \in 1..n |-> BaseClose + d1 * (Min(p, k) - 1) + d2 * Max(p - k, 0)], n)

ZigSeries(n, d1, d2) ==
    Column([p \in 1..n |-> BaseClose + d1 * (p \div 2) + d2 * ((p - 1) \div 2)], n)

Falling30 == Column([p \in 1..30 |-> 101 - p], 30)

Histories ==
    {StepSeries(n, d1, d2, k) : n \in 0..MaxLen, d1 \in Deltas, d2 \in Deltas, k \in Switches}
    \cup {ZigSeries(n, d1, d2) : n \in 0..MaxLen, d1 \in Deltas, d2 \in Deltas}
    \cup {Falling30}

\* The few histories the session-level specification audits.
SessionHistories ==
    {<< >>, Falling30, StepSeries(17, 1, 1, 8), StepSeries(27, -1, 2, 20)}

(***************************************************************************)
(* Session state and the Strategic Analysis tab.                           *)
(***************************************************************************)
None == [none |-> TRUE]
DataFrame(closes) == [none |-> FALSE, Close |-> closes]
EmptyDict == << >>
InitialRate == 10

\* Exchange rates are in tenths of a rupee per dollar (83.5 is 835).
LiveRates == {842}
GetExchangeRate == LiveRates \cup {FallbackRate}

Queries == {"", "alpha", "beta"}

\* What get_ticker_and_logo may return for a query: (None, None, None), or
\* the ticker, name and website domain of the listing the search found.
NotFound == [ticker |-> "", name |-> "", domain |-> ""]
Listings ==
    {[ticker |-> "ALPH", name |-> "Alpha Ltd", domain |-> "alpha.com"],
     [ticker |-> "BETA", name |-> "BETA", domain |-> ""]}
GetTickerAndLogo(query) == Listings \cup {NotFound}

\* Histories ticker_obj.history(period) may return in a Generate request.
ReportHistories == {<< >>, <<100, 102>>}

\* hist[col] = hist[col] * rate
ApplyRate(closes, rate) == Column([p \in 1..Len(closes) |-> closes[p] * rate], Len(closes))

\* The reply of generate_content to the prompt about one company: a text
\* (possibly empty) or an exception.
LLMReplies == {"text", "blank", "raise"}
ResponseText(ticker, rate, reply) ==
    [none |-> FALSE, about |-> ticker, rate |-> rate, blank |-> reply = "blank"]

Truthy(text) == ~text.none /\ ~text.blank

NoView == [status |-> "blank", notice |-> "none", name |-> "", ticker |-> "",
           price |-> 0, analysis |-> None, pdf |-> FALSE]

\* Lines 120-143: what the Strategic Analysis tab shows for the session.
DisplayEngine(data, info, text, notice) ==
    IF data.none
    THEN [NoView EXCEPT !.notice = notice]
    ELSE IF ~({"domain", "name", "ticker"} \subseteq DOMAIN info)
    THEN [NoView EXCEPT !.status = "KeyError", !.notice = notice]
    ELSE IF Len(data.Close) = 0
    THEN [NoView EXCEPT !.status = "IndexError", !.notice = notice,
                        !.name = info.name, !.ticker = info.ticker]
    ELSE [status |-> "shown", notice |-> notice, name |-> info.name,
          ticker |-> info.ticker, price |-> data.Close[Len(data.Close)],
          analysis |-> IF Truthy(text) THEN text ELSE None,
          pdf |-> Truthy(text)]

Stopped(v) == v.status \in {"KeyError", "IndexError", "FetchError"}

\* History variables: nreq counts the Generate requests, origin names the
\* request that last wrote each of three session fields (0: none),
\* last_audit keeps the latest audit rendered, the request count at that time
\* and whether it repeated an earlier audit after a later request.
NoOrigin == [stock_data |-> 0, comp_info |-> 0, conversion_rate |-> 0]
NoLastAudit == [shown |-> NoAudit, at |-> 0, again |-> FALSE]

Init ==
    /\ stock_data = None
    /\ analysis_text = None
    /\ comp_info = EmptyDict
    /\ conversion_rate = InitialRate
    /\ view = NoView
    /\ audit = NoAudit
    /\ last_audit = NoLastAudit
    /\ market \in SessionHistories
    /\ origin = NoOrigin
    /\ nreq = 0

\* Lines 102-104 with a bug: the rate of the request is not stored.
SaveToSessionNoRate(found, hist, rate) ==
    /\ stock_data' = DataFrame(ApplyRate(hist, rate))
    /\ conversion_rate' = conversion_rate
    /\ comp_info' = found
    /\ origin' = [stock_data |-> nreq + 1, comp_info |-> nreq + 1,
                  conversion_rate |-> origin.conversion_rate]

\* Lines 102-104: the fetched data, the rate and the company are stored.
SaveToSession(found, hist, rate) ==
    /\ stock_data' = DataFrame(ApplyRate(hist, rate))
    /\ conversion_rate' = rate
    /\ comp_info' = found
    /\ origin' = [stock_data |-> nreq + 1, comp_info |-> nreq + 1,
                  conversion_rate |-> nreq + 1]

\* Lines 106-115: the analysis is stored unless generate_content raises.
AISynthesis(found, rate, reply) ==
    IF reply = "raise"
    THEN UNCHANGED analysis_text
    ELSE analysis_text' = ResponseText(found.ticker, rate, reply)

\* Lines 87-117 and the display that follows: one press of Generate Live
\* Report.  fetch is "raise" when history() throws.
GenerateLiveReport ==
    /\ nreq < MaxRequests
    /\ \E query \in Queries, hist \in ReportHistories, fetch \in {"ok", "raise"},
          rate \in GetExchangeRate, reply \in LLMReplies :
      \E found \in GetTickerAndLogo(query) :
        /\ nreq' = nreq + 1
        /\ audit' = NoAudit
        /\ UNCHANGED <<last_audit, market>>
        /\ IF query = ""
           THEN /\ UNCHANGED <<session, origin>>
                /\ view' = DisplayEngine(stock_data, comp_info, analysis_text, "warning")
           ELSE IF found.ticker = ""
           THEN /\ UNCHANGED <<session, origin>>
                /\ view' = DisplayEngine(stock_data, comp_info, analysis_text,
                                         "Ticker not found.")
           ELSE IF fetch = "raise"
           THEN /\ UNCHANGED <<session, origin>>
                /\ view' = [NoView EXCEPT !.status = "FetchError"]
           ELSE /\ SaveToSession(found, hist, rate)
                /\ AISynthesis(found, rate, reply)
                /\ view' = DisplayEngine(stock_data', comp_info', analysis_text',
                                         IF reply = "raise" THEN "AI Reasoning Error"
                                         ELSE "none")

\* Run Audit with a bug: the audited history is kept in the session.
RunAuditCaching ==
    /\ view' = DisplayEngine(stock_data, comp_info, analysis_text, "none")
    /\ audit' = IF Stopped(view') THEN NoAudit ELSE AuditOutcome(market)
    /\ last_audit' = IF Stopped(view') THEN last_audit
                     ELSE [shown |-> audit', at |-> nreq,
                           again |-> last_audit.shown.kind # "idle" /\ last_audit.at < nreq]
    /\ stock_data' = IF Stopped(view') THEN stock_data ELSE DataFrame(market)
    /\ UNCHANGED <<analysis_text, comp_info, conversion_rate, market, origin, nreq>>

\* Lines 145-161, after the display of lines 120-143: one press of Run
\* Audit.  market is the history the provider returns for the ticker.  An
\* exception in the display ends the run before the audit tab is reached.
RunAudit ==
    /\ view' = DisplayEngine(stock_data, comp_info, analysis_text, "none")
    /\ audit' = IF Stopped(view') THEN NoAudit ELSE AuditOutcome(market)
    /\ last_audit' = IF Stopped(view') THEN last_audit
                     ELSE [shown |-> audit', at |-> nreq,
                           again |-> last_audit.shown.kind # "idle" /\ last_audit.at < nreq]
    /\ UNCHANGED <<session, market, origin, nreq>>

Next == GenerateLiveReport \/ RunAudit

Spec == Init /\ [][Next]_vars

(***************************************************************************)
(* The audit alone, over every history of the family.                      *)
(***************************************************************************)
InitAudit ==
    /\ stock_data = None
    /\ analysis_text = None
    /\ comp_info = EmptyDict
    /\ conversion_rate = InitialRate
    /\ view = NoView
    /\ audit = NoAudit
    /\ last_audit = NoLastAudit
    /\ market \in Histories
    /\ origin = NoOrigin
    /\ nreq = 0

NextAudit == RunAudit

SpecAudit == InitAudit /\ [][NextAudit]_vars

(***************************************************************************)
(* Properties.                                                             *)
(***************************************************************************)
Audited == audit.kind \in {"nosignal", "metric"}
Bars == 1..Len(audit.frame)
HitBars == {audit.hits[i].bar : i \in 1..Len(audit.hits)}

\* The closes of bars p-14 .. p do not move / do not fall / rise somewhere.
FlatWindow(p) == \A q \in (p - RSIWindow + 1)..p : audit.series[q] = audit.series[q - 1]
NoLossWindow(p) == \A q \in (p - RSIWindow + 1)..p : audit.series[q] >= audit.series[q - 1]
SomeGainWindow(p) == \E q \in (p - RSIWindow + 1)..p : audit.series[q] > audit.series[q - 1]

\* Bars labelled BUY whose close 5 bars later exists.
QualifyingBars ==
    {p \in Bars : audit.frame[p].Signal = "BUY" /\ p + Horizon <= Len(audit.series)}

\* C1: no bar whose 5-bar forward close lies past the end of the series is
\* among the rows the accuracy rate is computed over.
C1_NoLookAhead ==
    Audited => \A p \in HitBars : p + Horizon <= Len(audit.series)

\* C2: for the 30 closes 100, 99, ..., 71 the audit gives RSI 0 from bar
\* index 14 on, labels these bars BUY, and reports accuracy 0.0% over
\* 30 - 14 - 5 = 11 signals.
C2_FallingScenario ==
    (audit.kind # "idle" /\ audit.series = Falling30) =>
        /\ \A p \in (RSIWindow + 1)..30 :
              /\ audit.frame[p].RSI = Flt(0)
              /\ audit.frame[p].Signal = "BUY"
        /\ audit.kind = "metric"
        /\ audit.accuracy = 0
        /\ Len(audit.hits) = 30 - RSIWindow - Horizon

\* C3: an audit of a non-empty series without a BUY bar that has a forward
\* close shows no accuracy metric, and an accuracy of 0.0% is shown only
\* when such bars exist and none of them is a hit.
C3_NoSignalsIsNotZero ==
    Audited =>
        /\ QualifyingBars = {} => audit.kind = "nosignal"
        /\ (audit.kind = "metric" /\ audit.accuracy = 0) =>
              /\ QualifyingBars # {}
              /\ \A p \in QualifyingBars : audit.frame[p].Result = 0

\* C4: a bar whose RSI is undefined (one of the first 14 bars, or a bar
\* whose trailing 14 price changes are all zero) is not labelled BUY and is
\* not counted; a BUY bar has a defined RSI strictly below 35.
C4_UndefinedRSINeverBuy ==
    Audited =>
        \A p \in Bars :
            /\ (p <= RSIWindow \/ FlatWindow(p)) =>
                  /\ audit.frame[p].Signal # "BUY"
                  /\ p \notin HitBars
            /\ audit.frame[p].Signal = "BUY" =>
                  /\ audit.frame[p].RSI.k \in {"num", "nz"}
                  /\ audit.frame[p].RSI.n < BuyThreshold * audit.frame[p].RSI.d
            /\ p \in HitBars => audit.frame[p].Signal = "BUY"

C4_Witness ==
    /\ Audited
    /\ \E p \in Bars : p > RSIWindow /\ FlatWindow(p)
    /\ \E p \in Bars : audit.frame[p].Signal = "BUY"

\* C5: a bar after the first 14 whose trailing window has no loss and some
\* gain has RSI exactly 100 and is labelled WAIT.
C5_NoLossGives100 ==
    Audited =>
        \A p \in Bars :
            (p > RSIWindow /\ NoLossWindow(p) /\ SomeGainWindow(p)) =>
                /\ audit.frame[p].RSI = Flt(100)
                /\ audit.frame[p].Signal = "WAIT"

C5_Witness ==
    /\ Audited
    /\ \E p \in Bars : p > RSIWindow /\ NoLossWindow(p) /\ SomeGainWindow(p)
    /\ \E p \in Bars : p > RSIWindow /\ ~NoLossWindow(p)

\* C6: every defined RSI value lies in [0, 100].
C6_RSIInRange ==
    Audited =>
        \A p \in Bars :
            ~IsNaN(audit.frame[p].RSI) =>
                /\ audit.frame[p].RSI.k \in {"num", "nz"}
                /\ 0 <= audit.frame[p].RSI.n
                /\ audit.frame[p].RSI.n <= 100 * audit.frame[p].RSI.d

C6_Witness ==
    /\ Audited
    /\ \A p \in Bars : audit.series[p] > 0
    /\ \E p \in Bars :
          /\ audit.frame[p].RSI.k = "num"
          /\ 0 < audit.frame[p].RSI.n
          /\ audit.frame[p].RSI.n < 100 * audit.frame[p].RSI.d

C8_AnalysisMatchesCompany ==
    view.pdf => view.analysis.about = comp_info.ticker

\* C9: an audit of an empty history computes nothing, and the stored
\* stock_data is never an empty series.
C9_NoEmptySeriesConsumed ==
    /\ (audit.kind # "idle" /\ market = << >>) =>
          (audit.kind = "empty" /\ audit.frame = << >>)
    /\ ~stock_data.none => Len(stock_data.Close) > 0

\* C10: stock_data is set exactly when comp_info holds ticker, name and
\* domain; stock_data, comp_info and conversion_rate were written by the same
\* request; the display never misses a comp_info key; and a request with an
\* empty query or an unresolved ticker changes no session field.
C10_Together ==
    /\ ~stock_data.none <=> {"ticker", "name", "domain"} \subseteq DOMAIN comp_info
    /\ origin.stock_data = origin.comp_info
    /\ origin.comp_info = origin.conversion_rate
    /\ stock_data.none => (origin.stock_data = 0 /\ conversion_rate = InitialRate)
    /\ view.status # "KeyError"

C10_SessionFieldsTogether ==
    /\ []C10_Together
    /\ [][(nreq' # nreq /\ view'.notice \in {"warning", "Ticker not found."})
            => session' = session]_vars

C10_Witness ==
    /\ ~stock_data.none
    /\ view.notice = "Ticker not found."
    /\ origin.stock_data < nreq
    /\ origin.stock_data > 0

====
